---- MODULE Spec2Model ----
(***************************************************************************)
(* Session state machine of the USSD farmer-registration service           *)
(* (src/index.js): the POST /ussd handler, the expiry sweeper and the two  *)
(* in-memory stores sessionData and farmerDatabase.                        *)
(*                                                                         *)
(* Strings that the code takes apart (the cumulative text, the entries     *)
(* between '*', the argument of parseFloat) are sequences of one-character *)
(* strings.  JavaScript objects used as maps are functions whose DOMAIN is *)
(* the set of own keys, so "obj[k] is undefined" is "k \notin DOMAIN obj". *)
(*                                                                         *)
(* call is the invocation of the handler that is on the event loop, with   *)
(* its position, and the response timer of the call served last.  fresh is *)
(* a history variable: for each stored session, the fields written since   *)
(* the session last entered ENTER_NAME.                                    *)
(***************************************************************************)
EXTENDS Integers, Sequences, FiniteSets, TLC

VARIABLES sessionData, farmerDatabase, now, last, call, fresh

vars == <<sessionData, farmerDatabase, now, last, call, fresh>>

(***************************************************************************)
(* Bounds of the model                                                     *)
(***************************************************************************)
\* largest number of non-empty entries in a request text
MaxLevel == 4
\* largest number of entries where two callers share the registry
CallersMaxLevel == 3
\* largest number of entries where two sessions share the store
SweepMaxLevel == 1
\* the clock reads 0..MaxOverrun or SESSION_TIMEOUT + 0..MaxOverrun
MaxOverrun == 1
\* largest number of entries a dialogue accumulates
MaxDialLevel == 8
\* longest text of arbitrary characters
MaxTextLen == 3
\* largest number of entries where the handler is followed step by step
LoopMaxLevel == 2
\* largest number of entries where sessions are followed to their removal
LiveMaxLevel == 3

\* entries of a text in the dialogues whose stored fields are tracked
FreshMaxLevel == 3

\* entries of a text of the longer of two dialogues held at once
PairMaxLevel == 2


(***************************************************************************)
(* Program constants                                                       *)
(***************************************************************************)
SESSION_TIMEOUT == 5 * 60 * 1000

\* the empty JavaScript object {}
EmptyObject == [k \in {} |-> k]

\* obj[k] = v
Put(obj, k, v) == [x \in (DOMAIN obj) \cup {k} |-> IF x = k THEN v ELSE obj[x]]

\* delete obj[k]
Delete(obj, k) == [x \in (DOMAIN obj) \ {k} |-> obj[x]]

(***************************************************************************)
(* Strings                                                                 *)
(***************************************************************************)
Digits == {"0", "1", "2", "3", "4", "5", "6", "7", "8", "9"}

DigitVal(c) ==
    CASE c = "0" -> 0 [] c = "1" -> 1 [] c = "2" -> 2 [] c = "3" -> 3
      [] c = "4" -> 4 [] c = "5" -> 5 [] c = "6" -> 6 [] c = "7" -> 7
      [] c = "8" -> 8 [] c = "9" -> 9

\* text.split('*'): the segments between the delimiters, empty ones included;
\* ''.split('*') is ['']
RECURSIVE SplitFrom(_, _, _)
SplitFrom(text, i, cur) ==
    IF i > Len(text) THEN <<cur>>
    ELSE IF text[i] = "*" THEN <<cur>> \o SplitFrom(text, i + 1, <<>>)
    ELSE SplitFrom(text, i + 1, Append(cur, text[i]))

split(text) == SplitFrom(text, 1, <<>>)

\* the split without the filter
userInputsOf_Unfiltered(text) == split(text)

\* .filter(input => input): the empty string is the only falsy string
userInputsOf(text) == SelectSeq(split(text), LAMBDA input : input # <<>>)

\* userInputs[userInputs.length - 1] || ''
currentInputOf(userInputs) ==
    IF Len(userInputs) > 0 THEN userInputs[Len(userInputs)] ELSE <<>>

(***************************************************************************)
(* parseFloat: optional sign, then "Infinity" or the longest run of        *)
(* digits with at most one '.', the rest of the string ignored; NaN when   *)
(* no digit was read.  A number is num/den (den a power of ten), or        *)
(* +-Infinity (inf, sign in num), or NaN.  The input alphabet of the model *)
(* has no white space and no exponent marker.                              *)
(***************************************************************************)
NaN == [nan |-> TRUE, inf |-> FALSE, num |-> 0, den |-> 1]

Number(n, d) == [nan |-> FALSE, inf |-> FALSE, num |-> n, den |-> d]

Infinite(sign) == [nan |-> FALSE, inf |-> TRUE, num |-> sign, den |-> 1]

InfinityLiteral == <<"I", "n", "f", "i", "n", "i", "t", "y">>

\* number of leading digits of s from position i
RECURSIVE DigitRun(_, _)
DigitRun(s, i) ==
    IF i <= Len(s) /\ s[i] \in Digits THEN 1 + DigitRun(s, i + 1) ELSE 0

\* value of the digits s[i .. i+n-1]
RECURSIVE DigitsValue(_, _, _)
DigitsValue(s, i, n) ==
    IF n = 0 THEN 0 ELSE DigitsValue(s, i, n - 1) * 10 + DigitVal(s[i + n - 1])

RECURSIVE Pow10(_)
Pow10(n) == IF n = 0 THEN 1 ELSE 10 * Pow10(n - 1)

HasPrefixAt(s, i, p) ==
    /\ Len(s) >= i + Len(p) - 1
    /\ \A k \in 1..Len(p) : s[i + k - 1] = p[k]

parseFloat(s) ==
    LET signed == Len(s) >= 1 /\ s[1] \in {"-", "+"}
        sign   == IF Len(s) >= 1 /\ s[1] = "-" THEN -1 ELSE 1
        start  == IF signed THEN 2 ELSE 1
        ni     == DigitRun(s, start)
        dot    == start + ni
        nf     == IF dot <= Len(s) /\ s[dot] = "." THEN DigitRun(s, dot + 1) ELSE 0
    IN  IF HasPrefixAt(s, start, InfinityLiteral) THEN Infinite(sign)
        ELSE IF ni + nf = 0 THEN NaN
        ELSE Number(sign * (DigitsValue(s, start, ni) * Pow10(nf)
                              + DigitsValue(s, dot + 1, nf)),
                    Pow10(nf))

isNaN(v) == v.nan

\* v <= 0 (false for NaN)
LeqZero(v) == ~v.nan /\ v.num <= 0

(***************************************************************************)
(* Responses.  A response is the text sent back; prefix is its first four  *)
(* characters ("CON " or "END " in every literal of the code, "" for the   *)
(* empty string), body names the rest, data holds the values interpolated  *)
(* into it.                                                                *)
(***************************************************************************)
Response(prefix, body, data) == [prefix |-> prefix, body |-> body, data |-> data]

EmptyResponse == Response("", "", EmptyObject)

NamePrompt == Response("CON ", "Welcome to Farmer Registration. Please enter your full name:", EmptyObject)

RegistrationDetails(farmer) == Response("END ", "Your Registration Details:", farmer)

NotRegistered == Response("END ", "You are not registered yet.", EmptyObject)

Goodbye == Response("END ", "Thank you for using Farmer Registration Service. Goodbye!", EmptyObject)

InvalidOption == Response("END ", "Invalid option. Please try again.", EmptyObject)

CountyMenu == Response("CON ", "Enter your county location:", EmptyObject)

CustomCountyPrompt == Response("CON ", "Please type your county name:", EmptyObject)

InvalidSelection == Response("END ", "Invalid selection. Please try again.", EmptyObject)

CustomCropPrompt == Response("CON ", "Please type your crop type:", EmptyObject)

FarmSizePrompt == Response("CON ", "Enter your farm size in acres:", EmptyObject)

InvalidFarmSize == Response("CON ", "Invalid farm size. Please enter a valid number:", EmptyObject)

RegistrationSuccessful(name) == Response("END ", "Registration successful!", [name |-> name])

RegistrationCancelled == Response("END ", "Registration cancelled. Dial again to start over.", EmptyObject)

InvalidCancelled == Response("END ", "Invalid option. Registration cancelled.", EmptyObject)

ErrorOccurred == Response("END ", "An error occurred. Please dial again to restart.", EmptyObject)

SystemError == Response("END ", "System error. Please try again later.", EmptyObject)

TimeoutMessage == Response("END ", "Request timeout. Please try again.", EmptyObject)

generateMainMenu == Response("CON ", "Welcome to Farmer Registration Service", EmptyObject)

generateCropMenu == Response("CON ", "Select your main crop:", EmptyObject)

generateConfirmation(data) == Response("CON ", "Confirm your details:", data)

\* !response || response.trim() === ''
IsBlank(response) == response.prefix = "" /\ response.body = ""

\* response.startsWith('END')
startsWithEND(response) == response.prefix = "END "

(***************************************************************************)
(* The code tables                                                         *)
(***************************************************************************)
counties ==
       (<<"1">> :> <<"N", "a", "i", "r", "o", "b", "i">>)
    @@ (<<"2">> :> <<"K", "i", "a", "m", "b", "u">>)
    @@ (<<"3">> :> <<"M", "a", "c", "h", "a", "k", "o", "s">>)
    @@ (<<"4">> :> <<"N", "a", "k", "u", "r", "u">>)
    @@ (<<"5">> :> <<"M", "e", "r", "u">>)
    @@ (<<"6">> :> <<"K", "i", "s", "u", "m", "u">>)
    @@ (<<"7">> :> <<"M", "o", "m", "b", "a", "s", "a">>)

crops ==
       (<<"1">> :> <<"M", "a", "i", "z", "e">>)
    @@ (<<"2">> :> <<"W", "h", "e", "a", "t">>)
    @@ (<<"3">> :> <<"R", "i", "c", "e">>)
    @@ (<<"4">> :> <<"B", "e", "a", "n", "s">>)
    @@ (<<"5">> :> <<"P", "o", "t", "a", "t", "o", "e", "s">>)
    @@ (<<"6">> :> <<"T", "e", "a">>)
    @@ (<<"7">> :> <<"C", "o", "f", "f", "e", "e">>)
    @@ (<<"8">> :> <<"S", "u", "g", "a", "r", "c", "a", "n", "e">>)

\* Both tables are object literals, so table[key] also finds the members an
\* object inherits from Object.prototype; these are among them.
ObjectPrototypeKeys ==
    {<<"c", "o", "n", "s", "t", "r", "u", "c", "t", "o", "r">>,
     <<"t", "o", "S", "t", "r", "i", "n", "g">>,
     <<"v", "a", "l", "u", "e", "O", "f">>}

\* the inherited member (a function object), named by its key
Inherited(key) == <<"Object.prototype.">> \o key

\* table[key] is truthy: every own value is a non-empty string, every
\* inherited member a function
HasMember(table, key) == key \in DOMAIN table \/ key \in ObjectPrototypeKeys

\* table[key], for a key that has a member
Member(table, key) == IF key \in DOMAIN table THEN table[key] ELSE Inherited(key)

(***************************************************************************)
(* The session store                                                       *)
(***************************************************************************)
NewSession(phoneNumber, t) ==
    [phoneNumber |-> phoneNumber, stage |-> "MAIN_MENU", farmerData |-> EmptyObject,
     lastActivity |-> t, createdAt |-> t]

\* the session literal with its two clock readings: lastActivity: Date.now(),
\* createdAt: Date.now()
NewSessionRead(phoneNumber, t1, t2) == [NewSession(phoneNumber, t1) EXCEPT !.createdAt = t2]

\* cleanupSession deleting every session of the caller of sessionId
cleanupSession_DropsCaller(sd, sessionId) ==
    IF sessionId \in DOMAIN sd
    THEN [id \in {i \in DOMAIN sd : sd[i].phoneNumber # sd[sessionId].phoneNumber} |-> sd[id]]
    ELSE sd

\* cleanupSession emptying the store
cleanupSession_DropsAll(sd, sessionId) == EmptyObject

\* cleanupSession leaving the session in the store
cleanupSession_Keeps(sd, sessionId) == sd

\* if (sessionData[sessionId]) delete sessionData[sessionId]
cleanupSession(sd, sessionId) ==
    IF sessionId \in DOMAIN sd THEN Delete(sd, sessionId) ELSE sd

\* session.stage = stage, through the reference held by the handler
SetStage(sd, sessionId, stage) == [sd EXCEPT ![sessionId].stage = stage]

\* session.farmerData[field] = value
SetField(sd, sessionId, field, value) ==
    [sd EXCEPT ![sessionId].farmerData = Put(@, field, value)]

\* what a branch of the handler leaves behind
Outcome(sd, db, response) == [sessionData |-> sd, farmerDatabase |-> db, response |-> response]

(***************************************************************************)
(* The registry write of the confirmation branch                           *)
(***************************************************************************)
\* new Date().toLocaleString('en-KE', {timeZone: 'Africa/Nairobi'}): the wall
\* clock at the time of the call, to the second
registrationDate(t) == t \div 1000

\* { ...session.farmerData, phoneNumber, registrationDate }
registrationData(farmerData, phoneNumber, t) ==
    Put(Put(farmerData, "phoneNumber", phoneNumber), "registrationDate", registrationDate(t))

\* the write left out
SaveFarmer_Skipped(db, phoneNumber, record) == db

\* the new record laid under the caller's earlier one: { ...record, ...old }
SaveFarmer_Merged(db, phoneNumber, record) ==
    IF phoneNumber \in DOMAIN db
    THEN Put(db, phoneNumber,
             [k \in (DOMAIN record) \cup (DOMAIN db[phoneNumber]) |->
                IF k \in DOMAIN db[phoneNumber] THEN db[phoneNumber][k] ELSE record[k]])
    ELSE Put(db, phoneNumber, record)

\* farmerDatabase[phoneNumber] = registrationData
SaveFarmer(db, phoneNumber, record) == Put(db, phoneNumber, record)

(***************************************************************************)
(* The branches of the main flow.  sd is the store after the session was   *)
(* looked up or created, so sd[sessionId] is the handler's `session`.      *)
(***************************************************************************)
\* an entry the main menu does not list answered with the menu again
MainMenuSelection_InvalidShowsMenu(sd, db, sessionId, phoneNumber, currentInput) ==
    CASE currentInput = <<"1">> ->
           Outcome(SetStage(sd, sessionId, "ENTER_NAME"), db, NamePrompt)
      [] currentInput = <<"2">> ->
           Outcome(cleanupSession(sd, sessionId), db,
                   IF phoneNumber \in DOMAIN db
                   THEN RegistrationDetails(db[phoneNumber])
                   ELSE NotRegistered)
      [] currentInput = <<"3">> ->
           Outcome(cleanupSession(sd, sessionId), db, Goodbye)
      [] OTHER ->
           Outcome(SetStage(sd, sessionId, "MAIN_MENU"), db, generateMainMenu)

\* the status looked up under the telephone number that opened the session,
\* not the one of the request
MainMenuSelection_StatusOfSession(sd, db, sessionId, phoneNumber, currentInput) ==
    CASE currentInput = <<"1">> ->
           Outcome(SetStage(sd, sessionId, "ENTER_NAME"), db, NamePrompt)
      [] currentInput = <<"2">> ->
           Outcome(cleanupSession(sd, sessionId), db,
                   IF sd[sessionId].phoneNumber \in DOMAIN db
                   THEN RegistrationDetails(db[sd[sessionId].phoneNumber])
                   ELSE NotRegistered)
      [] currentInput = <<"3">> ->
           Outcome(cleanupSession(sd, sessionId), db, Goodbye)
      [] OTHER ->
           Outcome(cleanupSession(sd, sessionId), db, InvalidOption)

\* inputLevel === 1: a selection from the main menu
MainMenuSelection(sd, db, sessionId, phoneNumber, currentInput) ==
    CASE currentInput = <<"1">> ->
           Outcome(SetStage(sd, sessionId, "ENTER_NAME"), db, NamePrompt)
      [] currentInput = <<"2">> ->
           Outcome(cleanupSession(sd, sessionId), db,
                   IF phoneNumber \in DOMAIN db
                   THEN RegistrationDetails(db[phoneNumber])
                   ELSE NotRegistered)
      [] currentInput = <<"3">> ->
           Outcome(cleanupSession(sd, sessionId), db, Goodbye)
      [] OTHER ->
           Outcome(cleanupSession(sd, sessionId), db, InvalidOption)

\* EnterName moving on to the crop menu, the county never asked
EnterName_SkipsCounty(sd, db, sessionId, currentInput) ==
    Outcome(SetStage(SetField(sd, sessionId, "name", currentInput), sessionId, "SELECT_CROP"),
            db, generateCropMenu)

\* EnterName not asking again for a county the session already holds
EnterName_SkipsHeld(sd, db, sessionId, currentInput) ==
    IF "county" \in DOMAIN sd[sessionId].farmerData
    THEN Outcome(SetStage(SetField(sd, sessionId, "name", currentInput), sessionId,
                          "SELECT_CROP"),
                 db, generateCropMenu)
    ELSE Outcome(SetStage(SetField(sd, sessionId, "name", currentInput), sessionId,
                          "SELECT_COUNTY"),
                 db, CountyMenu)

EnterName(sd, db, sessionId, currentInput) ==
    Outcome(SetStage(SetField(sd, sessionId, "name", currentInput), sessionId, "SELECT_COUNTY"),
            db, CountyMenu)

\* SelectCounty storing the code typed, not the county it stands for
SelectCounty_StoresCode(sd, db, sessionId, currentInput) ==
    IF currentInput = <<"8">>
    THEN Outcome(SetStage(sd, sessionId, "ENTER_CUSTOM_COUNTY"), db, CustomCountyPrompt)
    ELSE IF HasMember(counties, currentInput)
    THEN Outcome(SetStage(SetField(sd, sessionId, "county", currentInput),
                          sessionId, "SELECT_CROP"),
                 db, generateCropMenu)
    ELSE Outcome(cleanupSession(sd, sessionId), db, InvalidSelection)

SelectCounty(sd, db, sessionId, currentInput) ==
    IF currentInput = <<"8">>
    THEN Outcome(SetStage(sd, sessionId, "ENTER_CUSTOM_COUNTY"), db, CustomCountyPrompt)
    ELSE IF HasMember(counties, currentInput)
    THEN Outcome(SetStage(SetField(sd, sessionId, "county", Member(counties, currentInput)),
                          sessionId, "SELECT_CROP"),
                 db, generateCropMenu)
    ELSE Outcome(cleanupSession(sd, sessionId), db, InvalidSelection)

\* EnterCustomCounty forgetting to store the county
EnterCustomCounty_NotSaved(sd, db, sessionId, currentInput) ==
    Outcome(SetStage(sd, sessionId, "SELECT_CROP"), db, generateCropMenu)

EnterCustomCounty(sd, db, sessionId, currentInput) ==
    Outcome(SetStage(SetField(sd, sessionId, "county", currentInput), sessionId, "SELECT_CROP"),
            db, generateCropMenu)

SelectCrop(sd, db, sessionId, currentInput) ==
    IF currentInput = <<"9">>
    THEN Outcome(SetStage(sd, sessionId, "ENTER_CUSTOM_CROP"), db, CustomCropPrompt)
    ELSE IF HasMember(crops, currentInput)
    THEN Outcome(SetStage(SetField(sd, sessionId, "crop", Member(crops, currentInput)),
                          sessionId, "ENTER_FARM_SIZE"),
                 db, FarmSizePrompt)
    ELSE Outcome(cleanupSession(sd, sessionId), db, InvalidSelection)

\* EnterCustomCrop recording that the crop is not a listed one, not its name
EnterCustomCrop_Other(sd, db, sessionId, currentInput) ==
    Outcome(SetStage(SetField(sd, sessionId, "crop", <<"O", "t", "h", "e", "r">>),
                     sessionId, "ENTER_FARM_SIZE"),
            db, FarmSizePrompt)

EnterCustomCrop(sd, db, sessionId, currentInput) ==
    Outcome(SetStage(SetField(sd, sessionId, "crop", currentInput), sessionId, "ENTER_FARM_SIZE"),
            db, FarmSizePrompt)

\* EnterFarmSize forgetting to store the farm size
EnterFarmSize_NotSaved(sd, db, sessionId, currentInput) ==
    LET farmSize == parseFloat(currentInput)
    IN  IF isNaN(farmSize) \/ LeqZero(farmSize)
        THEN Outcome(sd, db, InvalidFarmSize)
        ELSE Outcome(SetStage(sd, sessionId, "CONFIRM_REGISTRATION"), db,
                     generateConfirmation(sd[sessionId].farmerData))

EnterFarmSize(sd, db, sessionId, currentInput) ==
    LET farmSize == parseFloat(currentInput)
        saved    == SetField(sd, sessionId, "farmSize", farmSize)
    IN  IF isNaN(farmSize) \/ LeqZero(farmSize)
        THEN Outcome(sd, db, InvalidFarmSize)
        ELSE Outcome(SetStage(saved, sessionId, "CONFIRM_REGISTRATION"), db,
                     generateConfirmation(saved[sessionId].farmerData))

\* ConfirmRegistration writing the record before it looks at the entry
ConfirmRegistration_WritesFirst(sd, db, sessionId, phoneNumber, currentInput, t) ==
    LET session == sd[sessionId]
        written == SaveFarmer(db, phoneNumber,
                              registrationData(session.farmerData, phoneNumber, t))
    IN  IF currentInput = <<"1">>
        THEN Outcome(cleanupSession(sd, sessionId), written,
                     RegistrationSuccessful(session.farmerData.name))
        ELSE IF currentInput = <<"2">>
        THEN Outcome(cleanupSession(sd, sessionId), written, RegistrationCancelled)
        ELSE Outcome(cleanupSession(sd, sessionId), written, InvalidCancelled)

ConfirmRegistration(sd, db, sessionId, phoneNumber, currentInput, t) ==
    LET session == sd[sessionId]
    IN  IF currentInput = <<"1">>
        THEN Outcome(cleanupSession(sd, sessionId),
                     SaveFarmer(db, phoneNumber,
                                registrationData(session.farmerData, phoneNumber, t)),
                     RegistrationSuccessful(session.farmerData.name))
        ELSE IF currentInput = <<"2">>
        THEN Outcome(cleanupSession(sd, sessionId), db, RegistrationCancelled)
        ELSE Outcome(cleanupSession(sd, sessionId), db, InvalidCancelled)

\* the final else ending every session it is given
Fallback_NeverRecovers(sd, db, sessionId, text, inputLevel, currentInput) ==
    Outcome(cleanupSession(sd, sessionId), db, ErrorOccurred)

\* the final else leaving the response empty where it finds no recovery
Fallback_Silent(sd, db, sessionId, text, inputLevel, currentInput) ==
    IF inputLevel = 0 \/ text = <<>>
    THEN Outcome(SetStage(sd, sessionId, "MAIN_MENU"), db, generateMainMenu)
    ELSE Outcome(sd, db, EmptyResponse)

\* the final else: no stage rule matched
Fallback(sd, db, sessionId, text, inputLevel, currentInput) ==
    IF inputLevel = 1 /\ currentInput \in {<<"1">>, <<"2">>, <<"3">>}
    THEN Outcome(SetStage(sd, sessionId, "MAIN_MENU"), db, generateMainMenu)
    ELSE IF inputLevel = 0 \/ text = <<>>
    THEN Outcome(SetStage(sd, sessionId, "MAIN_MENU"), db, generateMainMenu)
    ELSE Outcome(cleanupSession(sd, sessionId), db, ErrorOccurred)

\* the main menu shown with the stage left as it was
FirstInteraction_KeepsStage(sd, db, sessionId) == Outcome(sd, db, generateMainMenu)

\* text === '': "First interaction - show main menu"
FirstInteraction(sd, db, sessionId) ==
    Outcome(SetStage(sd, sessionId, "MAIN_MENU"), db, generateMainMenu)

\* the main flow reading a text of one entry as a main-menu selection only
\* in stage MAIN_MENU
MainFlow_StageFirst(sd, db, sessionId, phoneNumber, text, t) ==
    LET userInputs   == userInputsOf(text)
        currentInput == currentInputOf(userInputs)
        inputLevel   == Len(userInputs)
        stage        == sd[sessionId].stage
    IN  IF text = <<>>
        THEN FirstInteraction(sd, db, sessionId)
        ELSE IF inputLevel = 1 /\ stage = "MAIN_MENU"
        THEN MainMenuSelection(sd, db, sessionId, phoneNumber, currentInput)
        ELSE IF stage = "ENTER_NAME" /\ inputLevel = 2
        THEN EnterName(sd, db, sessionId, currentInput)
        ELSE IF stage = "SELECT_COUNTY" /\ inputLevel = 3
        THEN SelectCounty(sd, db, sessionId, currentInput)
        ELSE IF stage = "ENTER_CUSTOM_COUNTY" /\ inputLevel = 4
        THEN EnterCustomCounty(sd, db, sessionId, currentInput)
        ELSE IF stage = "SELECT_CROP"
        THEN SelectCrop(sd, db, sessionId, currentInput)
        ELSE IF stage = "ENTER_CUSTOM_CROP"
        THEN EnterCustomCrop(sd, db, sessionId, currentInput)
        ELSE IF stage = "ENTER_FARM_SIZE"
        THEN EnterFarmSize(sd, db, sessionId, currentInput)
        ELSE IF stage = "CONFIRM_REGISTRATION"
        THEN ConfirmRegistration(sd, db, sessionId, phoneNumber, currentInput, t)
        ELSE Fallback(sd, db, sessionId, text, inputLevel, currentInput)

\* the if / else-if chain of the main flow
MainFlow(sd, db, sessionId, phoneNumber, text, t) ==
    LET userInputs   == userInputsOf(text)
        currentInput == currentInputOf(userInputs)
        inputLevel   == Len(userInputs)
        stage        == sd[sessionId].stage
    IN  IF text = <<>>
        THEN FirstInteraction(sd, db, sessionId)
        ELSE IF inputLevel = 1
        THEN MainMenuSelection(sd, db, sessionId, phoneNumber, currentInput)
        ELSE IF stage = "ENTER_NAME" /\ inputLevel = 2
        THEN EnterName(sd, db, sessionId, currentInput)
        ELSE IF stage = "SELECT_COUNTY" /\ inputLevel = 3
        THEN SelectCounty(sd, db, sessionId, currentInput)
        ELSE IF stage = "ENTER_CUSTOM_COUNTY" /\ inputLevel = 4
        THEN EnterCustomCounty(sd, db, sessionId, currentInput)
        ELSE IF stage = "SELECT_CROP"
        THEN SelectCrop(sd, db, sessionId, currentInput)
        ELSE IF stage = "ENTER_CUSTOM_CROP"
        THEN EnterCustomCrop(sd, db, sessionId, currentInput)
        ELSE IF stage = "ENTER_FARM_SIZE"
        THEN EnterFarmSize(sd, db, sessionId, currentInput)
        ELSE IF stage = "CONFIRM_REGISTRATION"
        THEN ConfirmRegistration(sd, db, sessionId, phoneNumber, currentInput, t)
        ELSE Fallback(sd, db, sessionId, text, inputLevel, currentInput)

\* the handler without its guard
EmptyResponseGuard_Absent(o, sessionId) == o

\* "Ensure response is never empty"
EmptyResponseGuard(o, sessionId) ==
    IF IsBlank(o.response)
    THEN Outcome(cleanupSession(o.sessionData, sessionId), o.farmerDatabase, SystemError)
    ELSE o

\* a session found taking over the telephone number of the request
InitSession_Rebinds(sd, sessionId, phoneNumber, t) ==
    IF sessionId \notin DOMAIN sd
    THEN Put(sd, sessionId, NewSession(phoneNumber, t))
    ELSE [sd EXCEPT ![sessionId].lastActivity = t, ![sessionId].phoneNumber = phoneNumber]

\* "Initialize session data if new session", else "Update last activity time"
InitSession(sd, sessionId, phoneNumber, t) ==
    IF sessionId \notin DOMAIN sd
    THEN Put(sd, sessionId, NewSession(phoneNumber, t))
    ELSE [sd EXCEPT ![sessionId].lastActivity = t]

\* "Handle case where session was lost/expired": taken when the lookup after
\* InitSession finds nothing
LostSession(sd, db, sessionId, phoneNumber, t) ==
    Outcome(SetStage(Put(sd, sessionId, NewSession(phoneNumber, t)), sessionId, "MAIN_MENU"),
            db, generateMainMenu)

\* the handler restarting every unknown session at the main menu, whatever
\* the text
Handle_RestartsUnknown(sd, db, sessionId, phoneNumber, text, t) ==
    LET sd1 == InitSession(sd, sessionId, phoneNumber, t)
        o   == IF sessionId \notin DOMAIN sd
               THEN LostSession(sd1, db, sessionId, phoneNumber, t)
               ELSE EmptyResponseGuard(MainFlow(sd1, db, sessionId, phoneNumber, text, t),
                                       sessionId)
    IN  [sessionData |-> o.sessionData, farmerDatabase |-> o.farmerDatabase,
         sent |-> <<o.response>>]

\* the whole handler of POST /ussd: the stores it leaves and the responses it
\* sent, in order
Handle(sd, db, sessionId, phoneNumber, text, t) ==
    LET sd1 == InitSession(sd, sessionId, phoneNumber, t)
        o   == IF sessionId \notin DOMAIN sd1
               THEN LostSession(sd1, db, sessionId, phoneNumber, t)
               ELSE EmptyResponseGuard(MainFlow(sd1, db, sessionId, phoneNumber, text, t),
                                       sessionId)
    IN  [sessionData |-> o.sessionData, farmerDatabase |-> o.farmerDatabase,
         sent |-> <<o.response>>]

(***************************************************************************)
(* The expiry sweeper                                                      *)
(***************************************************************************)
\* the timeout taken for a number of seconds
Expired_InSeconds(session, t) == t - session.lastActivity > SESSION_TIMEOUT * 1000

\* the expiry test with >= for >
Expired_AtTimeout(session, t) == t - session.lastActivity >= SESSION_TIMEOUT

\* now - sessionData[sessionId].lastActivity > SESSION_TIMEOUT
Expired(session, t) == t - session.lastActivity > SESSION_TIMEOUT

\* the setInterval callback: every expired session is deleted
Sweep(sd, t) == [id \in {i \in DOMAIN sd : ~Expired(sd[i], t)} |-> sd[id]]

(***************************************************************************)
(* The requests of the model.  A text is MaxLevel or fewer entries joined  *)
(* by '*'; the entries before the last are "1".  The last entry is one of  *)
(* the entries a caller may type at the prompt the session is showing:     *)
(* every menu choice the stage distinguishes, one entry it rejects, and    *)
(* one free text.                                                          *)
(***************************************************************************)
Stages ==
    {"MAIN_MENU", "ENTER_NAME", "SELECT_COUNTY", "ENTER_CUSTOM_COUNTY", "SELECT_CROP",
     "ENTER_CUSTOM_CROP", "ENTER_FARM_SIZE", "CONFIRM_REGISTRATION"}

FreeText == {<<"a">>}

MenuChoices == {<<"1">>, <<"2">>, <<"3">>, <<"a">>}

EntriesAt(stage) ==
    CASE stage = "SELECT_COUNTY"        -> {<<"1">>, <<"8">>, <<"a">>}
      [] stage = "SELECT_CROP"          -> {<<"1">>, <<"9">>, <<"a">>}
      [] stage = "ENTER_FARM_SIZE"      -> {<<"2", ".", "5">>, <<"0">>, <<"a">>}
      [] stage = "CONFIRM_REGISTRATION" -> {<<"1">>, <<"2">>, <<"a">>}
      [] OTHER                          -> FreeText

\* n entries, the last one being entry
RECURSIVE TextOf(_, _)
TextOf(n, entry) == IF n <= 1 THEN entry ELSE <<"1", "*">> \o TextOf(n - 1, entry)

DelimiterOnly == <<"*">>

RequestTexts(stage, maxLevel) ==
    {<<>>, DelimiterOnly}
      \cup {TextOf(1, e) : e \in MenuChoices}
      \cup {TextOf(n, e) : n \in 2..maxLevel, e \in EntriesAt(stage)}

\* what a caller may type in answer to the prompt of a stage, in a dialogue
\* that is followed entry by entry: all the codes of the menus, and entries
\* the menus do not list
RepliesAt(stage) ==
    CASE stage = "MAIN_MENU"            -> MenuChoices
      [] stage = "ENTER_NAME"           -> FreeText \cup {<<"1">>}
      [] stage = "SELECT_COUNTY"        ->
           {<<d>> : d \in Digits \ {"0"}} \cup FreeText
             \cup {<<"c", "o", "n", "s", "t", "r", "u", "c", "t", "o", "r">>}
      [] stage = "SELECT_CROP"          ->
           {<<d>> : d \in Digits \ {"0"}} \cup FreeText
             \cup {<<"c", "o", "n", "s", "t", "r", "u", "c", "t", "o", "r">>}
      [] stage = "ENTER_FARM_SIZE"      ->
           {<<"2", ".", "5">>, <<"0">>, <<"a">>, InfinityLiteral}
      [] stage = "CONFIRM_REGISTRATION" -> {<<"1">>, <<"2">>, <<"a">>}
      [] OTHER                          -> FreeText \cup {<<"a", "b">>}

\* the gateway's cumulative text after one more entry
Join(text, entry) == IF text = <<>> THEN entry ELSE text \o <<"*">> \o entry

\* the characters of arbitrary texts: the delimiter, a digit, a letter
Alphabet == {"*", "1", "a"}

\* every text of at most n characters
Texts(n) == UNION {[1..k -> Alphabet] : k \in 0..n}

\* the stage the caller of sessionId is looking at
Showing(sessionId) ==
    IF sessionId \in DOMAIN sessionData THEN sessionData[sessionId].stage ELSE "MAIN_MENU"

ClockSteps == {1, SESSION_TIMEOUT}

\* no invocation of the handler on the event loop, no call served yet
NoCall == [pc |-> "idle", sessionId |-> "", phoneNumber |-> "", text |-> <<>>,
           response |-> EmptyResponse,
           began |-> [sessionData |-> EmptyObject, farmerDatabase |-> EmptyObject,
                      existed |-> FALSE, stage |-> ""],
           t |-> 0, timer |-> "none", headersSent |-> FALSE]

\* by how much the clock may move on between two readings in one statement
ClockSkews == {0, 1}

NoRequest == [op |-> "", sessionId |-> "", phoneNumber |-> "", text |-> <<>>, sent |-> <<>>,
              existed |-> FALSE, stage |-> "", removed |-> {}]

(***************************************************************************)
(* The state machine                                                       *)
(***************************************************************************)
Init ==
    /\ sessionData = EmptyObject
    /\ farmerDatabase = EmptyObject
    /\ now = 0
    /\ last = [NoRequest EXCEPT !.op = "init"]
    /\ call = NoCall
    /\ fresh = EmptyObject

\* one POST /ussd, handled to completion
Request(sessionId, phoneNumber, text) ==
    LET h == Handle(sessionData, farmerDatabase, sessionId, phoneNumber, text, now)
    IN  /\ sessionData' = h.sessionData
        /\ farmerDatabase' = h.farmerDatabase
        /\ now' = now
        /\ last' = [op |-> "request", sessionId |-> sessionId, phoneNumber |-> phoneNumber,
                    text |-> text, sent |-> h.sent,
                    existed |-> sessionId \in DOMAIN sessionData,
                    stage |-> Showing(sessionId), removed |-> {}]
        /\ UNCHANGED <<call, fresh>>

\* one run of the setInterval callback
Sweeper ==
    /\ sessionData' = Sweep(sessionData, now)
    /\ last' = [NoRequest EXCEPT !.op = "sweep",
                                 !.removed = (DOMAIN sessionData) \ DOMAIN Sweep(sessionData, now)]
    /\ UNCHANGED <<farmerDatabase, now, call, fresh>>

\* the wall clock advances
Tick(d) ==
    /\ now + d <= SESSION_TIMEOUT + MaxOverrun
    /\ (now + d) % SESSION_TIMEOUT <= MaxOverrun
    /\ now' = now + d
    /\ last' = [NoRequest EXCEPT !.op = "tick"]
    /\ UNCHANGED <<sessionData, farmerDatabase, call, fresh>>

\* the requests of a population of sessions and callers, with texts of at most
\* maxLevel entries
Requests(ids, phones, maxLevel) ==
    \E sessionId \in ids, phoneNumber \in phones :
      \E text \in RequestTexts(Showing(sessionId), maxLevel) :
        Request(sessionId, phoneNumber, text)

\* One dialogue of one caller; the sweeper may run at any moment, and the
\* session may be left alone for longer than the timeout.
Next ==
    \/ Requests({"s1"}, {"p1"}, MaxLevel)
    \/ Sweeper
    \/ Tick(SESSION_TIMEOUT + 1)

Spec == Init /\ [][Next]_vars

\* One dialogue at a time, made from two telephones that share the registry.
NextCallers == Requests({"s1"}, {"p1", "p2"}, CallersMaxLevel)

SpecCallers == Init /\ [][NextCallers]_vars

\* Two sessions of one caller in the store, the sweeper, and a clock fine
\* enough to put a session exactly on, and just past, the timeout.
NextSweep ==
    \/ Requests({"s1", "s2"}, {"p1"}, SweepMaxLevel)
    \/ Sweeper
    \/ \E d \in ClockSteps : Tick(d)

SpecSweep == Init /\ [][NextSweep]_vars

\* Two sessions of one caller at once, one of them collecting data, with the
\* sweeper and a clock that lets them expire.
NextPair ==
    \/ Requests({"s1"}, {"p1"}, PairMaxLevel)
    \/ Requests({"s2"}, {"p1"}, SweepMaxLevel)
    \/ Sweeper
    \/ Tick(SESSION_TIMEOUT + 1)

SpecPair == Init /\ [][NextPair]_vars

\* the caller dials the service code: the first request of a dialogue
Dial(sessionId, phoneNumber) ==
    /\ last.op = "init"
    /\ Request(sessionId, phoneNumber, <<>>)

\* the caller answers the prompt on the screen: the gateway sends every entry
\* of the dialogue so far, joined by '*'
Reply(sessionId, phoneNumber, entry) ==
    /\ last.op = "request"
    /\ last.sessionId = sessionId
    /\ Len(last.sent) = 1
    /\ last.sent[1].prefix = "CON "
    /\ Len(userInputsOf(last.text)) < MaxDialLevel
    /\ Request(sessionId, phoneNumber, Join(last.text, entry))

\* One dialogue of a fresh session, followed from the dialling to its END.
NextDialogue ==
    \/ Dial("s1", "p1")
    \/ \E entry \in RepliesAt(Showing("s1")) : Reply("s1", "p1", entry)

SpecDialogue == Init /\ [][NextDialogue]_vars

\* Requests with arbitrary texts, well-formed or not.
NextDecoder == \E text \in Texts(MaxTextLen) : Request("s1", "p1", text)

SpecDecoder == Init /\ [][NextDecoder]_vars

\* A caller who goes away: requests arrive until the clock moves on, then no
\* more.  Time does advance, and the setInterval callback keeps being run.
NextLive ==
    \/ now = 0 /\ Requests({"s1"}, {"p1"}, LiveMaxLevel)
    \/ Sweeper
    \/ Tick(SESSION_TIMEOUT + 1)

SpecLive ==
    /\ Init
    /\ [][NextLive]_vars
    /\ WF_vars(Tick(SESSION_TIMEOUT + 1))
    /\ WF_vars(Sweeper)

(***************************************************************************)
(* The handler step by step.  Node runs one callback at a time, to its     *)
(* end: the route handler, the sweeper and the response timers are         *)
(* callbacks of one event loop, and the handler never yields (it has no    *)
(* await and no callback of its own but the timer).  call.began keeps the  *)
(* stores the invocation found, for comparison.                            *)
(***************************************************************************)
\* no callback is running: the event loop may start the next one
Idle == call.pc = "idle"

\* the timer callback: if (!res.headersSent) res.send('END Request timeout...')
TimerCallback(headersSent, sent) ==
    IF ~headersSent THEN Append(sent, TimeoutMessage) ELSE sent

\* a POST /ussd is dispatched: the handler reads the body and arms the timer
Arrive(sessionId, phoneNumber, text) ==
    /\ Idle
    /\ call' = [pc |-> "init", sessionId |-> sessionId, phoneNumber |-> phoneNumber,
                text |-> text, response |-> EmptyResponse,
                began |-> [sessionData |-> sessionData, farmerDatabase |-> farmerDatabase,
                           existed |-> sessionId \in DOMAIN sessionData,
                           stage |-> Showing(sessionId)],
                t |-> now, timer |-> "armed", headersSent |-> FALSE]
    /\ UNCHANGED <<sessionData, farmerDatabase, now, last, fresh>>

\* "Initialize session data if new session", else "Update last activity
\* time"; the clock may move on by d between the two readings of a new session
InitStep(d) ==
    /\ call.pc = "init"
    /\ \/ d = 0
       \/ /\ call.sessionId \notin DOMAIN sessionData
          /\ (now + d) % SESSION_TIMEOUT <= MaxOverrun
    /\ sessionData' =
         IF call.sessionId \notin DOMAIN sessionData
         THEN Put(sessionData, call.sessionId, NewSessionRead(call.phoneNumber, now, now + d))
         ELSE [sessionData EXCEPT ![call.sessionId].lastActivity = now]
    /\ now' = now + d
    /\ call' = [call EXCEPT !.pc = "flow", !.t = now]
    /\ UNCHANGED <<farmerDatabase, last, fresh>>

\* the lost-session test and the main flow
FlowStep ==
    /\ call.pc = "flow"
    /\ LET o == IF call.sessionId \notin DOMAIN sessionData
                THEN LostSession(sessionData, farmerDatabase, call.sessionId,
                                 call.phoneNumber, now)
                ELSE MainFlow(sessionData, farmerDatabase, call.sessionId,
                              call.phoneNumber, call.text, now)
       IN  /\ sessionData' = o.sessionData
           /\ farmerDatabase' = o.farmerDatabase
           /\ call' = [call EXCEPT !.pc = "guard", !.response = o.response]
    /\ UNCHANGED <<now, last, fresh>>

\* "Ensure response is never empty"
GuardStep ==
    /\ call.pc = "guard"
    /\ LET o == EmptyResponseGuard(Outcome(sessionData, farmerDatabase, call.response),
                                   call.sessionId)
       IN  /\ sessionData' = o.sessionData
           /\ call' = [call EXCEPT !.pc = "send", !.response = o.response]
    /\ UNCHANGED <<farmerDatabase, now, last, fresh>>

\* SendStep leaving the timer armed
SendStep_KeepsTimer ==
    /\ call.pc = "send"
    /\ call' = [call EXCEPT !.pc = "idle", !.headersSent = TRUE]
    /\ last' = [op |-> "request", sessionId |-> call.sessionId,
                phoneNumber |-> call.phoneNumber, text |-> call.text,
                sent |-> <<call.response>>, existed |-> call.began.existed,
                stage |-> call.began.stage, removed |-> {}]
    /\ UNCHANGED <<sessionData, farmerDatabase, now, fresh>>

\* clearTimeout(timeoutId); res.send(response): the handler returns
SendStep ==
    /\ call.pc = "send"
    /\ call' = [call EXCEPT !.pc = "idle", !.timer = "cleared", !.headersSent = TRUE]
    /\ last' = [op |-> "request", sessionId |-> call.sessionId,
                phoneNumber |-> call.phoneNumber, text |-> call.text,
                sent |-> <<call.response>>, existed |-> call.began.existed,
                stage |-> call.began.stage, removed |-> {}]
    /\ UNCHANGED <<sessionData, farmerDatabase, now, fresh>>

\* 25 seconds after the call was dispatched: the timer callback runs if the
\* timer is still armed
Deadline ==
    /\ Idle
    /\ call.timer \in {"armed", "cleared"}
    /\ last' = [last EXCEPT !.sent = IF call.timer = "armed"
                                     THEN TimerCallback(call.headersSent, @)
                                     ELSE @]
    /\ call' = [call EXCEPT !.timer = "passed",
                            !.headersSent = @ \/ call.timer = "armed"]
    /\ UNCHANGED <<sessionData, farmerDatabase, now, fresh>>

\* the sweeper not waiting for the handler to return
SweeperTurn_Preempting == Sweeper

\* the setInterval callback, dispatched by the event loop
SweeperTurn == Idle /\ Sweeper

\* the clock advances between callbacks
TickTurn(d) == Idle /\ Tick(d)

\* One session; every request is followed through the handler.
NextLoop ==
    \/ \E text \in RequestTexts(Showing("s1"), LoopMaxLevel) : Arrive("s1", "p1", text)
    \/ \E d \in ClockSkews : InitStep(d)
    \/ FlowStep
    \/ GuardStep
    \/ SendStep
    \/ Deadline
    \/ SweeperTurn
    \/ \E d \in ClockSteps : TickTurn(d)

SpecLoop == Init /\ [][NextLoop]_vars

(***************************************************************************)
(* The fields of farmerData, tracked.  fresh[id] describes the most recent *)
(* session of id: stored holds the fields that requests have assigned      *)
(* since the session was last put in stage ENTER_NAME, held the fields it  *)
(* was holding at that moment.                                             *)
(***************************************************************************)
RecordFields == {"name", "county", "crop", "farmSize"}

\* a value no request assigns to the field
Unwritten(field) == IF field = "farmSize" THEN NaN ELSE <<"unwritten">>

\* the fields of farmerData that the handler assigns on this request: those
\* that it leaves different from a mark put on every field before it runs
Assigned(sd, db, sessionId, phoneNumber, text, t) ==
    LET marked == IF sessionId \in DOMAIN sd
                  THEN [sd EXCEPT ![sessionId].farmerData =
                                    [f \in RecordFields |-> Unwritten(f)]]
                  ELSE sd
        after  == Handle(marked, db, sessionId, phoneNumber, text, t).sessionData
    IN  IF sessionId \in DOMAIN after
        THEN {f \in RecordFields \cap DOMAIN after[sessionId].farmerData :
                after[sessionId].farmerData[f] # Unwritten(f)}
        ELSE {}

NothingTracked == [stored |-> {}, held |-> {}]

\* fresh[sessionId] after a request that took the store from sd to after and
\* assigned the fields in assigned
Track(fr, sd, after, sessionId, assigned) ==
    LET before == IF sessionId \in DOMAIN sd /\ sessionId \in DOMAIN fr
                  THEN fr[sessionId]
                  ELSE NothingTracked
    IN  IF sessionId \in DOMAIN after /\ after[sessionId].stage = "ENTER_NAME"
        THEN [stored |-> assigned,
              held   |-> (RecordFields \cap DOMAIN after[sessionId].farmerData) \ assigned]
        ELSE [stored |-> before.stored \cup assigned, held |-> before.held]

\* one POST /ussd, handled to completion, its assignments tracked
TrackedRequest(sessionId, phoneNumber, text) ==
    LET h == Handle(sessionData, farmerDatabase, sessionId, phoneNumber, text, now)
    IN  /\ sessionData' = h.sessionData
        /\ farmerDatabase' = h.farmerDatabase
        /\ now' = now
        /\ last' = [op |-> "request", sessionId |-> sessionId, phoneNumber |-> phoneNumber,
                    text |-> text, sent |-> h.sent,
                    existed |-> sessionId \in DOMAIN sessionData,
                    stage |-> Showing(sessionId), removed |-> {}]
        /\ fresh' = Put(fresh, sessionId,
                        Track(fresh, sessionData, h.sessionData, sessionId,
                              Assigned(sessionData, farmerDatabase, sessionId,
                                       phoneNumber, text, now)))
        /\ UNCHANGED call

\* One dialogue of one caller, with the sweeper and a clock that lets the
\* session expire.
NextFresh ==
    \/ \E text \in RequestTexts(Showing("s1"), FreshMaxLevel) :
         TrackedRequest("s1", "p1", text)
    \/ Sweeper
    \/ Tick(SESSION_TIMEOUT + 1)

SpecFresh == Init /\ [][NextFresh]_vars

(***************************************************************************)
(* Properties                                                              *)
(***************************************************************************)
Has(session, fields) == fields \subseteq DOMAIN session.farmerData

StageOf(sd, sessionId) == sd[sessionId].stage

\* C1: a stored session in stage CONFIRM_REGISTRATION has name, county, crop
\* and farmSize all present in its farmerData, after any requests and sweeps.
C1_ConfirmHasAllFields ==
    \A id \in DOMAIN sessionData :
      StageOf(sessionData, id) = "CONFIRM_REGISTRATION"
        => Has(sessionData[id], {"name", "county", "crop", "farmSize"})

C1_Witness ==
    /\ last.op = "request"
    /\ last.stage = "ENTER_FARM_SIZE"
    /\ last.sessionId \in DOMAIN sessionData
    /\ StageOf(sessionData, last.sessionId) = "CONFIRM_REGISTRATION"

\* C2: a stored session has the fields of the stages it has passed: name from
\* the county stages on, name and county from the crop stages on, and name,
\* county and crop in ENTER_FARM_SIZE.
C2_PassedStagesPopulated ==
    \A id \in DOMAIN sessionData :
      LET session == sessionData[id]
      IN  /\ session.stage \in {"SELECT_COUNTY", "ENTER_CUSTOM_COUNTY"}
               => Has(session, {"name"})
          /\ session.stage \in {"SELECT_CROP", "ENTER_CUSTOM_CROP"}
               => Has(session, {"name", "county"})
          /\ session.stage = "ENTER_FARM_SIZE"
               => Has(session, {"name", "county", "crop"})

C2_Witness ==
    /\ last.op = "request"
    /\ last.stage = "ENTER_CUSTOM_COUNTY"
    /\ last.sessionId \in DOMAIN sessionData
    /\ StageOf(sessionData, last.sessionId) = "SELECT_CROP"

\* the stage changes the transition table lists
TableEdges ==
    {<<s, "MAIN_MENU">> : s \in Stages}
      \cup {<<"MAIN_MENU", "ENTER_NAME">>,
            <<"ENTER_NAME", "SELECT_COUNTY">>,
            <<"SELECT_COUNTY", "ENTER_CUSTOM_COUNTY">>,
            <<"SELECT_COUNTY", "SELECT_CROP">>,
            <<"ENTER_CUSTOM_COUNTY", "SELECT_CROP">>,
            <<"SELECT_CROP", "ENTER_CUSTOM_CROP">>,
            <<"SELECT_CROP", "ENTER_FARM_SIZE">>,
            <<"ENTER_CUSTOM_CROP", "ENTER_FARM_SIZE">>,
            <<"ENTER_FARM_SIZE", "CONFIRM_REGISTRATION">>}

\* every change of a stored session's stage in one step is one of edges
StageChangesWithin(edges) ==
    \A id \in (DOMAIN sessionData) \cap (DOMAIN sessionData') :
      StageOf(sessionData, id) # StageOf(sessionData', id)
        => <<StageOf(sessionData, id), StageOf(sessionData', id)>> \in edges

\* C3 as stated: a request changes a stored session's stage only along an
\* edge of the transition table.
C3_TableEdgesOnly == [][StageChangesWithin(TableEdges)]_vars

\* C3 as amended: a request changes a stored session's stage only along an
\* edge of the transition table or, for a one-entry text whose entry is "1",
\* from any stage to ENTER_NAME.
C3_TableEdgesOrRestart ==
    [][StageChangesWithin(TableEdges \cup {<<s, "ENTER_NAME">> : s \in Stages})]_vars

C3_Witness ==
    /\ last.op = "request"
    /\ last.existed
    /\ last.stage = "ENTER_FARM_SIZE"
    /\ last.text = <<"1">>
    /\ last.sessionId \in DOMAIN sessionData
    /\ StageOf(sessionData, last.sessionId) = "ENTER_NAME"

\* C4: after a handled request, a response that starts with END has left the
\* request's session absent from the store, and one that starts with CON has
\* left it stored.
C4_StoreMatchesResponse ==
    last.op = "request" =>
      \A i \in 1..Len(last.sent) :
        /\ last.sent[i].prefix = "END " => last.sessionId \notin DOMAIN sessionData
        /\ last.sent[i].prefix = "CON " => last.sessionId \in DOMAIN sessionData

C4_Witness ==
    /\ last.op = "request"
    /\ last.existed
    /\ last.stage = "SELECT_COUNTY"
    /\ last.sent = <<InvalidSelection>>
    /\ last.sessionId \notin DOMAIN sessionData

\* C5: every request is answered exactly once, by a non-empty response that
\* starts with "CON " or "END "; and a flow that ended with an empty response
\* would be answered with the terminal system error, its session deleted.
C5_OneWellFormedResponse ==
    /\ last.op = "request" =>
         /\ Len(last.sent) = 1
         /\ ~IsBlank(last.sent[1])
         /\ last.sent[1].prefix \in {"CON ", "END "}
    /\ \A id \in DOMAIN sessionData :
         LET o == EmptyResponseGuard(Outcome(sessionData, farmerDatabase, EmptyResponse), id)
         IN  /\ o.response = SystemError
             /\ startsWithEND(o.response)
             /\ id \notin DOMAIN o.sessionData

C5_Witness ==
    /\ last.op = "request"
    /\ last.text = DelimiterOnly
    /\ last.stage = "ENTER_CUSTOM_CROP"
    /\ Len(last.sent) = 1
    /\ last.sent[1].prefix = "CON "

\* the step just taken handled a request for a session stored in stage
RequestAt(stage) ==
    /\ last'.op = "request"
    /\ last'.existed
    /\ last'.stage = stage

\* the outcome of a request: its only response, whether the session is still
\* stored, and whether the registry is as it was
Answered(response, stored, registryKept) ==
    /\ last'.sent = <<response>>
    /\ (last'.sessionId \in DOMAIN sessionData') = stored
    /\ registryKept => farmerDatabase' = farmerDatabase

\* the confirmation rules applied to the request just handled
ConfirmationRules ==
    LET session == sessionData[last'.sessionId]
        latest  == currentInputOf(userInputsOf(last'.text))
        caller  == last'.phoneNumber
    IN  IF latest = <<"1">>
        THEN /\ Answered(RegistrationSuccessful(session.farmerData.name), FALSE, FALSE)
             /\ caller \in DOMAIN farmerDatabase'
             /\ farmerDatabase'[caller].phoneNumber = caller
             /\ \A f \in {"name", "county", "crop", "farmSize"} :
                  farmerDatabase'[caller][f] = session.farmerData[f]
        ELSE IF latest = <<"2">>
        THEN Answered(RegistrationCancelled, FALSE, TRUE)
        ELSE Answered(InvalidCancelled, FALSE, TRUE)

\* C6 as stated: in CONFIRM_REGISTRATION a latest entry "1", at any level,
\* writes the caller's record from the session's data, answers END success
\* and deletes the session; "2" answers END cancelled and any other entry END
\* invalid/cancelled, both deleting the session and leaving the registry.
\* (The empty text, which has no entry, is left out.)
C6_ConfirmAtAnyLevel ==
    [][(/\ RequestAt("CONFIRM_REGISTRATION")
        /\ last'.text # <<>>) => ConfirmationRules]_vars

\* C6 as amended: the same, for a request whose text does not hold exactly
\* one entry.
C6_ConfirmBeyondLevelOne ==
    [][(/\ RequestAt("CONFIRM_REGISTRATION")
        /\ last'.text # <<>>
        /\ Len(userInputsOf(last'.text)) # 1) => ConfirmationRules]_vars

C6_Witness ==
    /\ last.op = "request"
    /\ last.existed
    /\ last.stage = "CONFIRM_REGISTRATION"
    /\ Len(userInputsOf(last.text)) > 1
    /\ currentInputOf(userInputsOf(last.text)) = <<"1">>
    /\ last.phoneNumber \in DOMAIN farmerDatabase
    /\ last.sessionId \notin DOMAIN sessionData

\* the step just taken was a confirmation answered with END success
Confirmed ==
    /\ RequestAt("CONFIRM_REGISTRATION")
    /\ Len(last'.sent) = 1
    /\ last'.sent[1].body = RegistrationSuccessful(<<>>).body

\* C7: only a successful confirmation changes the registry; every other
\* request and every sweep leaves it as it was, and no step removes an entry.
C7_RegistryFrame ==
    [][/\ farmerDatabase' # farmerDatabase => Confirmed
       /\ DOMAIN farmerDatabase \subseteq DOMAIN farmerDatabase']_vars

C7_Witness ==
    /\ last.op = "request"
    /\ last.stage = "CONFIRM_REGISTRATION"
    /\ last.sent = <<RegistrationCancelled>>
    /\ last.phoneNumber \in DOMAIN farmerDatabase

\* C8: a successful confirmation by caller u leaves registry[u] equal to the
\* record built from the session (nothing of an earlier record of u is kept),
\* adds no other key, and leaves every other caller's entry as it was.
C8_RecordReplaced ==
    [][Confirmed =>
         LET u == last'.phoneNumber
         IN  /\ DOMAIN farmerDatabase' = (DOMAIN farmerDatabase) \cup {u}
             /\ farmerDatabase'[u]
                  = [name |-> sessionData[last'.sessionId].farmerData.name,
                     county |-> sessionData[last'.sessionId].farmerData.county,
                     crop |-> sessionData[last'.sessionId].farmerData.crop,
                     farmSize |-> sessionData[last'.sessionId].farmerData.farmSize,
                     phoneNumber |-> u,
                     registrationDate |-> registrationDate(now)]
             /\ \A v \in (DOMAIN farmerDatabase) \ {u} :
                  farmerDatabase'[v] = farmerDatabase[v]]_vars

\* a confirmation made while another caller is registered with another crop
C8_Witness ==
    /\ last.op = "request"
    /\ last.stage = "CONFIRM_REGISTRATION"
    /\ Len(last.sent) = 1
    /\ last.sent[1].body = RegistrationSuccessful(<<>>).body
    /\ \E v \in DOMAIN farmerDatabase :
         /\ v # last.phoneNumber
         /\ farmerDatabase[v].crop # farmerDatabase[last.phoneNumber].crop

\* C9: a sweep at time now leaves no session with now - lastActivity >
\* SESSION_TIMEOUT in the store and leaves every other session stored, as it
\* was.
C9_SweepRemovesExactlyExpired ==
    [][last'.op = "sweep" =>
         \A id \in DOMAIN sessionData :
           IF now - sessionData[id].lastActivity > SESSION_TIMEOUT
           THEN id \notin DOMAIN sessionData'
           ELSE id \in DOMAIN sessionData' /\ sessionData'[id] = sessionData[id]]_vars

C9_Witness ==
    /\ last.op = "sweep"
    /\ last.removed # {}
    /\ \E id \in DOMAIN sessionData : now - sessionData[id].lastActivity = SESSION_TIMEOUT

\* C10: a request with a non-empty text for a session that is not in the store
\* is not answered with the error termination.
C10_MissingSessionRecovered ==
    (/\ last.op = "request"
     /\ ~last.existed
     /\ last.text # <<>>) => last.sent # <<ErrorOccurred>>

\* C11: a request for a session id that is not in the store, whose text holds
\* the single entry "1", is answered with the CON name prompt (not with the
\* error termination) and leaves a new session of the caller stored in stage
\* ENTER_NAME.
C11_UnknownSessionStartsRegistration ==
    (/\ last.op = "request"
     /\ ~last.existed
     /\ userInputsOf(last.text) = << <<"1">> >>)
      => /\ last.sent = <<NamePrompt>>
         /\ last.sent[1].prefix = "CON "
         /\ last.sent[1] # ErrorOccurred
         /\ last.sessionId \in DOMAIN sessionData
         /\ sessionData[last.sessionId]
              = [NewSession(last.phoneNumber, now) EXCEPT !.stage = "ENTER_NAME"]

\* the first request of a session id, made with the entry "1"
C11_Witness ==
    /\ last.op = "request"
    /\ ~last.existed
    /\ last.text = <<"1">>
    /\ last.sessionId \in DOMAIN sessionData
    /\ StageOf(sessionData, last.sessionId) = "ENTER_NAME"

\* a positive finite number
PositiveFinite(v) == ~v.nan /\ ~v.inf /\ v.num > 0

\* the farm-size rule applied to the request just handled: a positive finite
\* number is stored and confirmed, anything else is asked for again
FarmSizeRules ==
    LET id      == last'.sessionId
        session == sessionData[id]
        farmSize == parseFloat(currentInputOf(userInputsOf(last'.text)))
        stored  == Put(session.farmerData, "farmSize", farmSize)
    IN  IF PositiveFinite(farmSize)
        THEN /\ Answered(generateConfirmation(stored), TRUE, TRUE)
             /\ sessionData'[id].stage = "CONFIRM_REGISTRATION"
             /\ sessionData'[id].farmerData = stored
        ELSE /\ Answered(InvalidFarmSize, TRUE, TRUE)
             /\ sessionData'[id].stage = "ENTER_FARM_SIZE"
             /\ sessionData'[id].farmerData = session.farmerData

\* C12: in ENTER_FARM_SIZE a latest entry that parses as a positive finite
\* number is stored as farmSize and answered with the CON confirmation, the
\* stage becoming CONFIRM_REGISTRATION; any other entry is answered with the
\* CON re-prompt, stage and farmerData as they were and the session kept, at
\* every retry.  (Stated for the texts of a followed dialogue, which hold
\* more than one entry.)
C12_FarmSizeValidated ==
    [][(/\ RequestAt("ENTER_FARM_SIZE")
        /\ Len(userInputsOf(last'.text)) > 1) => FarmSizeRules]_vars

\* the entries the rule of a stage rejects; the free-text stages reject none
InvalidFor(stage, entry) ==
    CASE stage = "MAIN_MENU"            -> entry \notin {<<"1">>, <<"2">>, <<"3">>}
      [] stage = "SELECT_COUNTY"        -> entry \notin (DOMAIN counties) \cup {<<"8">>}
      [] stage = "SELECT_CROP"          -> entry \notin (DOMAIN crops) \cup {<<"9">>}
      [] stage = "ENTER_FARM_SIZE"      ->
           isNaN(parseFloat(entry)) \/ LeqZero(parseFloat(entry))
      [] stage = "CONFIRM_REGISTRATION" -> entry \notin {<<"1">>, <<"2">>}
      [] OTHER                          -> FALSE

\* C13: a request whose latest entry is invalid for the stage of its session
\* is answered, in ENTER_FARM_SIZE, with a CON response that leaves the
\* session in that stage, and in every other stage with an END response, the
\* session deleted.
C13_OnlyFarmSizeReprompts ==
    LET latest == currentInputOf(userInputsOf(last.text))
    IN  (/\ last.op = "request"
         /\ last.existed
         /\ latest # <<>>
         /\ InvalidFor(last.stage, latest))
          => /\ Len(last.sent) = 1
             /\ IF last.stage = "ENTER_FARM_SIZE"
                THEN /\ last.sent[1].prefix = "CON "
                     /\ last.sessionId \in DOMAIN sessionData
                     /\ StageOf(sessionData, last.sessionId) = "ENTER_FARM_SIZE"
                ELSE /\ last.sent[1].prefix = "END "
                     /\ last.sessionId \notin DOMAIN sessionData

\* the entries of a registration made from the menus: "1", a name, a listed
\* county code, a listed crop code, a positive size and "1", or the first few
\* of these
OnHappyPath(u) ==
    /\ Len(u) <= 6
    /\ Len(u) >= 1 => u[1] = <<"1">>
    /\ Len(u) >= 3 => u[3] \in DOMAIN counties
    /\ Len(u) >= 4 => u[4] \in DOMAIN crops
    /\ Len(u) >= 5 => PositiveFinite(parseFloat(u[5]))
    /\ Len(u) >= 6 => u[6] = <<"1">>

\* what these entries register
HappyData(u) ==
    [name |-> u[2], county |-> counties[u[3]], crop |-> crops[u[4]],
     farmSize |-> parseFloat(u[5])]

\* C14: in the dialogue of a fresh session, the cumulative texts "", "1",
\* "1*n", "1*n*c", "1*n*c*k", "1*n*c*k*z", "1*n*c*k*z*1" (c a county code
\* 1..7, k a crop code 1..8, z positive) are answered with the CON main menu,
\* name prompt, county menu, crop menu, farm-size prompt and confirmation,
\* the session kept, and then with END success, after which the registry
\* holds for the caller the record with name n, the county of c, the crop of
\* k and farmSize z, and the session is deleted.
C14_HappyPath ==
    LET u  == userInputsOf(last.text)
        id == last.sessionId
        expected ==
          CASE Len(u) = 0 -> generateMainMenu
            [] Len(u) = 1 -> NamePrompt
            [] Len(u) = 2 -> CountyMenu
            [] Len(u) = 3 -> generateCropMenu
            [] Len(u) = 4 -> FarmSizePrompt
            [] Len(u) = 5 -> generateConfirmation(HappyData(u))
            [] Len(u) = 6 -> RegistrationSuccessful(u[2])
    IN  (last.op = "request" /\ OnHappyPath(u))
          => /\ last.sent = <<expected>>
             /\ IF Len(u) < 6
                THEN /\ expected.prefix = "CON "
                     /\ id \in DOMAIN sessionData
                     /\ farmerDatabase = EmptyObject
                ELSE /\ expected.prefix = "END "
                     /\ id \notin DOMAIN sessionData
                     /\ DOMAIN farmerDatabase = {last.phoneNumber}
                     /\ farmerDatabase[last.phoneNumber]
                          = registrationData(HappyData(u), last.phoneNumber, now)

\* a registration of county 7 and crop 8
C14_Witness ==
    LET u == userInputsOf(last.text)
    IN  /\ last.op = "request"
        /\ OnHappyPath(u)
        /\ Len(u) = 6
        /\ u[3] = <<"7">>
        /\ u[4] = <<"8">>
        /\ last.phoneNumber \in DOMAIN farmerDatabase
        /\ farmerDatabase[last.phoneNumber].county = <<"M", "o", "m", "b", "a", "s", "a">>
        /\ farmerDatabase[last.phoneNumber].crop
             = <<"S", "u", "g", "a", "r", "c", "a", "n", "e">>

\* C15: in a followed dialogue, "8" at SELECT_COUNTY (third entry) is
\* answered with the prompt for a county name and moves to
\* ENTER_CUSTOM_COUNTY, where the fourth entry is stored as county as typed;
\* "9" at SELECT_CROP moves to ENTER_CUSTOM_CROP, where the next entry is
\* stored as crop as typed; after "1", n, "8", a county, "9", a crop the
\* session is in ENTER_FARM_SIZE with name n and both typed values.
C15_CustomPath ==
    LET u      == userInputsOf(last.text)
        latest == currentInputOf(u)
        id     == last.sessionId
        At(stage, response) ==
          /\ last.sent = <<response>>
          /\ id \in DOMAIN sessionData
          /\ StageOf(sessionData, id) = stage
    IN  (last.op = "request" /\ last.existed /\ Len(u) > 1)
          => /\ (last.stage = "SELECT_COUNTY" /\ Len(u) = 3 /\ latest = <<"8">>)
                  => At("ENTER_CUSTOM_COUNTY", CustomCountyPrompt)
             /\ (last.stage = "ENTER_CUSTOM_COUNTY" /\ Len(u) = 4)
                  => /\ At("SELECT_CROP", generateCropMenu)
                     /\ sessionData[id].farmerData.county = latest
             /\ (last.stage = "SELECT_CROP" /\ latest = <<"9">>)
                  => At("ENTER_CUSTOM_CROP", CustomCropPrompt)
             /\ last.stage = "ENTER_CUSTOM_CROP"
                  => /\ At("ENTER_FARM_SIZE", FarmSizePrompt)
                     /\ sessionData[id].farmerData.crop = latest
             /\ (Len(u) = 6 /\ u[1] = <<"1">> /\ u[3] = <<"8">> /\ u[5] = <<"9">>)
                  => /\ At("ENTER_FARM_SIZE", FarmSizePrompt)
                     /\ sessionData[id].farmerData
                          = [name |-> u[2], county |-> u[4], crop |-> u[6]]

\* a county and a crop typed in, different from each other
C15_Witness ==
    LET u == userInputsOf(last.text)
    IN  /\ last.op = "request"
        /\ last.stage = "ENTER_CUSTOM_CROP"
        /\ Len(u) = 6
        /\ u[3] = <<"8">>
        /\ u[5] = <<"9">>
        /\ u[4] = <<"a", "b">>
        /\ u[6] = <<"a">>
        /\ last.sessionId \in DOMAIN sessionData
        /\ sessionData[last.sessionId].farmerData.county = <<"a", "b">>
        /\ sessionData[last.sessionId].farmerData.crop = <<"a">>

\* C16: a request whose text holds the single entry "2" is answered with the
\* END registration details of the request's caller when the registry has a
\* record for that telephone number and with END "not registered" when it has
\* none; the session is deleted and the registry is left as it was.
C16_StatusCheck ==
    [][(/\ last'.op = "request"
        /\ userInputsOf(last'.text) = << <<"2">> >>)
         => LET caller == last'.phoneNumber
                answer == IF caller \in DOMAIN farmerDatabase
                          THEN RegistrationDetails(farmerDatabase[caller])
                          ELSE NotRegistered
            IN  /\ Answered(answer, FALSE, TRUE)
                /\ answer.prefix = "END "]_vars

\* the status of a registered caller, asked in a stored session while another
\* caller is registered as well
C16_Witness ==
    /\ last.op = "request"
    /\ last.existed
    /\ last.text = <<"2">>
    /\ last.phoneNumber \in DOMAIN farmerDatabase
    /\ last.sent = <<RegistrationDetails(farmerDatabase[last.phoneNumber])>>
    /\ last.sessionId \notin DOMAIN sessionData
    /\ DOMAIN farmerDatabase # {last.phoneNumber}

\* C17: a request with a one-entry text for a session in stage MAIN_MENU is
\* answered, for the entry "1", with the CON name prompt, the session moving
\* to ENTER_NAME; for "3", with END goodbye, the session deleted; and for an
\* entry other than "1", "2", "3", with END invalid option, the session
\* deleted.
C17_MainMenuChoices ==
    LET u      == userInputsOf(last.text)
        latest == currentInputOf(u)
        id     == last.sessionId
    IN  (last.op = "request" /\ last.stage = "MAIN_MENU" /\ Len(u) = 1)
          => /\ latest = <<"1">>
                  => /\ last.sent = <<NamePrompt>>
                     /\ last.sent[1].prefix = "CON "
                     /\ id \in DOMAIN sessionData
                     /\ StageOf(sessionData, id) = "ENTER_NAME"
             /\ latest = <<"3">>
                  => /\ last.sent = <<Goodbye>>
                     /\ last.sent[1].prefix = "END "
                     /\ id \notin DOMAIN sessionData
             /\ latest \notin {<<"1">>, <<"2">>, <<"3">>}
                  => /\ last.sent = <<InvalidOption>>
                     /\ last.sent[1].prefix = "END "
                     /\ id \notin DOMAIN sessionData

\* an unlisted entry typed at the main menu of a stored session
C17_Witness ==
    /\ last.op = "request"
    /\ last.existed
    /\ last.stage = "MAIN_MENU"
    /\ last.text = <<"a">>
    /\ last.sent = <<InvalidOption>>
    /\ last.sessionId \notin DOMAIN sessionData

\* C18: a request with the empty text, whatever the stage of its session, is
\* answered with the CON main menu and leaves the session stored, in stage
\* MAIN_MENU.
C18_EmptyTextShowsMainMenu ==
    (last.op = "request" /\ last.text = <<>>)
      => /\ last.sent = <<generateMainMenu>>
         /\ last.sent[1].prefix = "CON "
         /\ last.sessionId \in DOMAIN sessionData
         /\ StageOf(sessionData, last.sessionId) = "MAIN_MENU"

\* the empty text sent in the middle of a registration
C18_Witness ==
    /\ last.op = "request"
    /\ last.existed
    /\ last.text = <<>>
    /\ last.stage = "CONFIRM_REGISTRATION"
    /\ last.sessionId \in DOMAIN sessionData
    /\ StageOf(sessionData, last.sessionId) = "MAIN_MENU"
    /\ Has(sessionData[last.sessionId], {"name", "county", "crop", "farmSize"})

\* the positions of text where a segment begins: a character other than the
\* delimiter, at the start or after a delimiter
SegmentStarts(text) ==
    {i \in 1..Len(text) : text[i] # "*" /\ (i = 1 \/ text[i - 1] = "*")}

\* the segment that begins at position i: up to the next delimiter or the end
SegmentFrom(text, i) ==
    LET end == CHOOSE j \in i..Len(text) :
                 /\ \A k \in i..j : text[k] # "*"
                 /\ j = Len(text) \/ text[j + 1] = "*"
    IN  SubSeq(text, i, end)

\* C19: for every text over an alphabet that holds the delimiter, the entries
\* the handler decodes are the non-empty segments between delimiters, in
\* order; the level is their number; the latest entry is the last of them, or
\* the empty string when there is none, as for "" and for a text of
\* delimiters only.
C19_DecoderSegments ==
    last.op = "request" =>
      LET text    == last.text
          entries == userInputsOf(text)
          level   == Len(entries)
          latest  == currentInputOf(entries)
          starts  == SegmentStarts(text)
      IN  /\ level = Cardinality(starts)
          /\ \A i \in starts :
               LET n == Cardinality({j \in starts : j <= i})
               IN  /\ n <= level
                   /\ entries[n] = SegmentFrom(text, i)
                   /\ (n = Cardinality(starts)) => latest = entries[n]
          /\ starts = {} => latest = <<>>
          /\ (\A i \in 1..Len(text) : text[i] = "*") => (level = 0 /\ latest = <<>>)

\* a text with two empty segments before its only entry, handled as a
\* selection from the main menu
C19_Witness ==
    /\ last.op = "request"
    /\ last.text = <<"*", "*", "1">>
    /\ userInputsOf(last.text) = << <<"1">> >>
    /\ last.sent = <<NamePrompt>>

\* C20: in every store the program reaches, deleting a session id that is
\* absent leaves the store as it is; so does a second delete of an id, and a
\* delete of an id the sweeper has just removed; a delete after a sweep leaves
\* the store a sweep after the delete leaves.
C20_DeleteIdempotent ==
    \A id \in {"s1", "s2"} :
      LET once  == cleanupSession(sessionData, id)
          swept == Sweep(sessionData, now)
      IN  /\ id \notin DOMAIN sessionData => once = sessionData
          /\ id \notin DOMAIN once
          /\ cleanupSession(once, id) = once
          /\ id \notin DOMAIN swept => cleanupSession(swept, id) = swept
          /\ cleanupSession(swept, id) = Sweep(once, now)
          /\ \A other \in (DOMAIN sessionData) \ {id} :
               other \in DOMAIN once /\ once[other] = sessionData[other]

\* the sweeper has just removed one session and left the other
C20_Witness ==
    /\ last.op = "sweep"
    /\ last.removed # {}
    /\ sessionData # EmptyObject
    /\ \E id \in last.removed : cleanupSession(sessionData, id) = sessionData

\* a store without the creation times, which the handler only logs
Forget(sd) == [id \in DOMAIN sd |-> [sd[id] EXCEPT !.createdAt = 0]]

\* C21: while an invocation of the handler is under way no sweep, no timer
\* callback and no other invocation takes a step, and when it returns, the
\* stores and the response are those of the whole handler applied in one
\* step to the stores it found: lookup or creation, stage read, mutation and
\* deletion act as one.
C21_HandlerAtomic ==
    [][/\ ~Idle => /\ last' = last \/ last'.op = "request"
                   /\ call'.sessionId = call.sessionId
                   /\ call'.began = call.began
                   /\ call'.pc # "init"
       /\ (call.pc = "send" /\ call'.pc = "idle")
            => LET h == Handle(call.began.sessionData, call.began.farmerDatabase,
                               call.sessionId, call.phoneNumber, call.text, call.t)
               IN  /\ Forget(sessionData') = Forget(h.sessionData)
                   /\ farmerDatabase' = h.farmerDatabase
                   /\ last'.sent = h.sent]_vars

\* a request returned for a session that had outlived the timeout: a sweep
\* between its steps would have removed the session
C21_Witness ==
    /\ last.op = "request"
    /\ Idle
    /\ last.existed
    /\ last.stage = "ENTER_NAME"
    /\ call.t - call.began.sessionData[last.sessionId].lastActivity > SESSION_TIMEOUT
    /\ last.sessionId \in DOMAIN sessionData
    /\ StageOf(sessionData, last.sessionId) = "SELECT_COUNTY"

\* C22: when time advances, the sweeper keeps running and requests stop
\* arriving at some point, a session that is in the store is eventually out
\* of it: a request ended its dialogue, or a sweep found it expired.
C22_EverySessionRemoved ==
    ("s1" \in DOMAIN sessionData) ~> ("s1" \notin DOMAIN sessionData)

\* a session left in the middle of a registration, removed by a sweep
C22_Witness ==
    /\ last.op = "sweep"
    /\ "s1" \in last.removed
    /\ "s1" \notin DOMAIN sessionData
    /\ now > SESSION_TIMEOUT

\* C23: the session initialisation of a request gives a session it finds the
\* current time as lastActivity, its createdAt as it was, and creates a
\* session it does not find in MAIN_MENU with empty farmerData and createdAt
\* = lastActivity = the current time; so in every stored session lastActivity
\* >= createdAt, and no step decreases a stored session's lastActivity.
C23_ActivityTimes ==
    [][/\ (call.pc = "init" /\ call'.pc = "flow")
            => LET id == call.sessionId
               IN  IF id \in DOMAIN sessionData
                   THEN sessionData'[id] = [sessionData[id] EXCEPT !.lastActivity = now']
                   ELSE sessionData'[id] = NewSession(call.phoneNumber, now')
       /\ \A id \in DOMAIN sessionData' :
            sessionData'[id].lastActivity >= sessionData'[id].createdAt
       /\ \A id \in (DOMAIN sessionData) \cap (DOMAIN sessionData') :
            sessionData'[id].lastActivity >= sessionData[id].lastActivity]_vars

\* C24: a session that is stored before and after a step has the same
\* phoneNumber before and after, also when the step is a request made from
\* another telephone.
C24_CallerFixed ==
    [][\A id \in (DOMAIN sessionData) \cap (DOMAIN sessionData') :
         sessionData'[id].phoneNumber = sessionData[id].phoneNumber]_vars

\* a session opened from one telephone and continued from another
C24_Witness ==
    /\ last.op = "request"
    /\ last.existed
    /\ last.stage = "ENTER_NAME"
    /\ last.sessionId \in DOMAIN sessionData
    /\ StageOf(sessionData, last.sessionId) = "SELECT_COUNTY"
    /\ sessionData[last.sessionId].phoneNumber # last.phoneNumber

\* What the response timer may do to a call, for a timeout message of the
\* given type: run on a call not yet answered, its callback emits one message
\* of that type; a call that was answered has its timer cancelled, the callback
\* would add nothing, and the call has one response.
DeadlineRules(prefix) ==
    /\ ~Idle =>
         /\ ~call.headersSent
         /\ call.timer = "armed"
         /\ Len(TimerCallback(call.headersSent, <<>>)) = 1
         /\ TimerCallback(call.headersSent, <<>>)[1].prefix = prefix
    /\ call.headersSent =>
         /\ call.timer # "armed"
         /\ TimerCallback(call.headersSent, last.sent) = last.sent
    /\ last.op = "request" => Len(last.sent) = 1

\* the deadline passing leaves the sessions and the registry as they are
DeadlineKeepsState ==
    (call.timer # "passed" /\ call'.timer = "passed")
      => /\ UNCHANGED <<sessionData, farmerDatabase>>
         /\ call'.pc = call.pc
         /\ call'.response = call.response

\* C25 as stated: on expiry of the deadline one CON timeout message is
\* emitted only if no response was sent, the stage computation is neither
\* cancelled nor rolled back, and an answered call has its timer cancelled
\* and never gets a second response.
C25_TimeoutContinues ==
    [][DeadlineRules("CON ")' /\ DeadlineKeepsState]_vars

\* C25 amended: the timeout message is of the END type; on expiry one END
\* timeout message is emitted only if no response was sent, the stage
\* computation is neither cancelled nor rolled back, and an answered call has
\* its timer cancelled and never gets a second response.
C25_TimeoutEnds ==
    [][DeadlineRules("END ")' /\ DeadlineKeepsState]_vars

\* the deadline of an answered call has passed, the session still stored
C25_Witness ==
    /\ call.timer = "passed"
    /\ call.headersSent
    /\ last.op = "request"
    /\ last.sent = <<call.response>>
    /\ call.sessionId \in DOMAIN sessionData

\* the stage rules of the main flow that a text of the given level, not
\* empty and not of one entry, passes by
Unmatched(stage, inputLevel) ==
    \/ stage = "MAIN_MENU"
    \/ stage = "ENTER_NAME" /\ inputLevel # 2
    \/ stage = "SELECT_COUNTY" /\ inputLevel # 3
    \/ stage = "ENTER_CUSTOM_COUNTY" /\ inputLevel # 4

\* C26: a request that matches no stage rule is answered with the CON main
\* menu, the session kept in stage MAIN_MENU, when its level is 0; at any
\* other level it is answered with the END generic error and the session is
\* deleted.
C26_UnmatchedRequests ==
    LET inputLevel == Len(userInputsOf(last.text))
    IN  (/\ last.op = "request"
         /\ last.text # <<>>
         /\ inputLevel # 1
         /\ Unmatched(last.stage, inputLevel))
          => IF inputLevel = 0
             THEN /\ last.sent = <<generateMainMenu>>
                  /\ generateMainMenu.prefix = "CON "
                  /\ last.sessionId \in DOMAIN sessionData
                  /\ StageOf(sessionData, last.sessionId) = "MAIN_MENU"
             ELSE /\ last.sent = <<ErrorOccurred>>
                  /\ ErrorOccurred.prefix = "END "
                  /\ last.sessionId \notin DOMAIN sessionData

\* a delimiter-only text sent to a session that waits for the county
C26_Witness ==
    /\ last.op = "request"
    /\ last.stage = "SELECT_COUNTY"
    /\ last.text = DelimiterOnly
    /\ last.sent = <<generateMainMenu>>
    /\ StageOf(sessionData, last.sessionId) = "MAIN_MENU"

\* a text of two entries sent to a session that waits for the custom county
C26_WitnessRejected ==
    /\ last.op = "request"
    /\ last.stage = "ENTER_CUSTOM_COUNTY"
    /\ Len(userInputsOf(last.text)) = 2
    /\ last.sent = <<ErrorOccurred>>
    /\ last.sessionId \notin DOMAIN sessionData

\* C27: in every reachable state the main flow gives every request text a
\* message that is not empty, so no request is answered with the 'System
\* error' response of the empty-response guard.
C27_NeverEmpty ==
    /\ \A text \in RequestTexts(Showing("s1"), MaxLevel) :
         LET sd == InitSession(sessionData, "s1", "p1", now)
             o  == MainFlow(sd, farmerDatabase, "s1", "p1", text, now)
         IN  /\ ~IsBlank(o.response)
             /\ EmptyResponseGuard(o, "s1") = o
    /\ last.op = "request" => last.sent # <<SystemError>>

\* a request that no branch but the last one takes, answered by that branch
C27_Witness ==
    /\ last.op = "request"
    /\ last.stage = "MAIN_MENU"
    /\ Len(userInputsOf(last.text)) = MaxLevel
    /\ last.sent = <<ErrorOccurred>>
    /\ ~IsBlank(last.sent[1])

\* C28: a request of level 1 is a main-menu selection whatever the stage of
\* its session: entry "1" is answered with the name prompt and leaves the
\* session in ENTER_NAME, any other entry is answered with END and deletes the
\* session; no stage rule acts on it (no field is stored, no record written),
\* and it is never answered with the main menu of the fallback.
C28_LevelOneIsMenuSelection ==
    [][(/\ last'.op = "request"
        /\ Len(userInputsOf(last'.text)) = 1)
         => LET id    == last'.sessionId
                entry == currentInputOf(userInputsOf(last'.text))
            IN  /\ farmerDatabase' = farmerDatabase
                /\ last'.sent # <<generateMainMenu>>
                /\ IF entry = <<"1">>
                   THEN /\ last'.sent = <<NamePrompt>>
                        /\ id \in DOMAIN sessionData'
                        /\ StageOf(sessionData', id) = "ENTER_NAME"
                        /\ sessionData'[id].farmerData =
                             IF last'.existed THEN sessionData[id].farmerData
                                              ELSE EmptyObject
                   ELSE /\ Len(last'.sent) = 1
                        /\ last'.sent[1].prefix = "END "
                        /\ id \notin DOMAIN sessionData']_vars

\* "1" typed at the confirmation screen: nothing is registered, the session
\* is back at the name prompt
C28_Witness ==
    /\ last.op = "request"
    /\ last.stage = "CONFIRM_REGISTRATION"
    /\ last.text = <<"1">>
    /\ last.sent = <<NamePrompt>>
    /\ StageOf(sessionData, last.sessionId) = "ENTER_NAME"
    /\ last.phoneNumber \notin DOMAIN farmerDatabase

\* C29: when a confirmation writes a record, every one of name, county, crop
\* and farmSize in it is the session's pending value and was assigned by a
\* request handled after the session was last put in stage ENTER_NAME, also
\* when the session was holding older values at that moment.
C29_NoStaleField ==
    [][Confirmed
         => LET id == last'.sessionId
            IN  /\ RecordFields \subseteq fresh[id].stored
                /\ \A f \in RecordFields :
                     farmerDatabase'[last'.phoneNumber][f] = sessionData[id].farmerData[f]]_vars

\* a record written by a session that had gone back to the name prompt with
\* all four fields held, and was given all four again
C29_Witness ==
    /\ last.op = "request"
    /\ last.stage = "CONFIRM_REGISTRATION"
    /\ last.phoneNumber \in DOMAIN farmerDatabase
    /\ last.sent = <<RegistrationSuccessful(farmerDatabase[last.phoneNumber].name)>>
    /\ last.sessionId \in DOMAIN fresh
    /\ fresh[last.sessionId].held = RecordFields
    /\ fresh[last.sessionId].stored = RecordFields

\* C30: every record of the registry has a name, a county and a crop that
\* are not empty and a farmSize greater than 0, and is stored under the key
\* equal to its own phoneNumber, whatever requests were made, delimiter-only
\* texts included.
C30_RecordsComplete ==
    \A key \in DOMAIN farmerDatabase :
      LET record == farmerDatabase[key]
      IN  /\ RecordFields \cup {"phoneNumber"} \subseteq DOMAIN record
          /\ record.name # <<>>
          /\ record.county # <<>>
          /\ record.crop # <<>>
          /\ ~isNaN(record.farmSize) /\ ~LeqZero(record.farmSize)
          /\ record.phoneNumber = key

\* C31: a request for one sessionId leaves every other sessionId as it was,
\* neither created, nor modified, nor deleted; a sweep removes expired
\* sessions only and leaves every other session, the registry and the clock
\* as they were.
C31_SessionsIsolated ==
    [][/\ last'.op = "request" =>
            \A id \in ((DOMAIN sessionData) \cup (DOMAIN sessionData')) \ {last'.sessionId} :
              /\ id \in DOMAIN sessionData
              /\ id \in DOMAIN sessionData'
              /\ sessionData'[id] = sessionData[id]
       /\ last'.op = "sweep" =>
            /\ DOMAIN sessionData' \subseteq DOMAIN sessionData
            /\ \A id \in (DOMAIN sessionData) \ (DOMAIN sessionData') :
                 now - sessionData[id].lastActivity > SESSION_TIMEOUT
            /\ \A id \in DOMAIN sessionData' :
                 /\ sessionData'[id].stage = sessionData[id].stage
                 /\ sessionData'[id].farmerData = sessionData[id].farmerData
                 /\ sessionData'[id].lastActivity = sessionData[id].lastActivity
                 /\ sessionData'[id] = sessionData[id]
            /\ UNCHANGED <<farmerDatabase, now>>]_vars

\* a request has ended one session while the other, which holds a name and
\* waits for the county, stays as it was
C31_Witness ==
    /\ last.op = "request"
    /\ last.sessionId = "s2"
    /\ last.existed
    /\ "s2" \notin DOMAIN sessionData
    /\ "s1" \in DOMAIN sessionData
    /\ StageOf(sessionData, "s1") = "SELECT_COUNTY"
    /\ Has(sessionData["s1"], {"name"})

\* a sweep has removed an expired session and left a younger one
C31_WitnessSweep ==
    /\ last.op = "sweep"
    /\ last.removed # {}
    /\ sessionData # EmptyObject

====
